---- MODULE Spec2Model ----
(***************************************************************************)
(* Model of app/utils/io.py of ml-prediction-explainer: the column type    *)
(* classifier (detect_column_types), the dataset validator                 *)
(* (validate_dataframe, check_high_cardinality_and_identifiers) and the    *)
(* schema aligner (preprocess_dataset).                                    *)
(*                                                                         *)
(* A table (pandas DataFrame) is a sequence of columns; a column is a      *)
(* record [name, dtype, cells]; a cell is a record [k, p, q, f, s]:        *)
(*   k = "null"  a missing value (NaN)                                     *)
(*   k = "num"   the number p/q (q > 0, reduced); f says it is a float     *)
(*   k = "text"  the string s                                              *)
(*   k = "bool"  an indicator value, p in {0, 1}                           *)
(* dtype is "numeric" (int64/float64), "object" or "category".  The        *)
(* library calls are modelled with the behaviour of pandas 2.x and         *)
(* scikit-learn's SimpleImputer.                                           *)
(***************************************************************************)
EXTENDS Integers, Sequences, FiniteSets, TLC

(* ------------------------------ bounds -------------------------------- *)
MaxRows == 20
MaxCols == 2
MaxSchemaLen == 3
MaxRuns == 2

(* -------------------------- program constants ------------------------- *)
CardinalityThreshold == 15
MinRows == 10
MinCols == 2

(* ------------------------------ strings ------------------------------- *)
\* The characters of the model in ASCII order.
Alphabet == "./0123456789ABCDEFGHIJKLMNOPQRSTUVWXYZ_abcdefghijklmnopqrstuvwxyz"

Ch(s, i) == SubSeq(s, i, i)

Ord(c) == CHOOSE i \in 1..Len(Alphabet) : Ch(Alphabet, i) = c

IsUpper(c) == Ord(c) \in 13..38

RECURSIVE str_lower(_)
\* str.lower(): every upper-case letter replaced by its lower-case letter.
str_lower(s) ==
    IF Len(s) = 0 THEN ""
    ELSE LET c == Ch(s, 1)
         IN (IF IsUpper(c) THEN Ch(Alphabet, Ord(c) + 27) ELSE c)
                \o str_lower(SubSeq(s, 2, Len(s)))

\* Python's `keyword in col_lower`: kw occurs in s as a substring.
str_contains(s, kw) ==
    \E i \in 1..(Len(s) - Len(kw) + 1) : SubSeq(s, i, i + Len(kw) - 1) = kw

RECURSIVE str_less(_, _)
\* Python's  a < b  on strings: lexicographic by character code.
str_less(a, b) ==
    IF Len(b) = 0 THEN FALSE
    ELSE IF Len(a) = 0 THEN TRUE
    ELSE IF Ch(a, 1) = Ch(b, 1)
         THEN str_less(SubSeq(a, 2, Len(a)), SubSeq(b, 2, Len(b)))
         ELSE Ord(Ch(a, 1)) < Ord(Ch(b, 1))

IsDigit(c) == Ord(c) \in 3..12

\* The strings that parse as a number (decimal digits).
IsNumericText(s) == Len(s) > 0 /\ \A i \in 1..Len(s) : IsDigit(Ch(s, i))

RECURSIVE ParseNat(_)
ParseNat(s) ==
    IF Len(s) = 0 THEN 0
    ELSE 10 * ParseNat(SubSeq(s, 1, Len(s) - 1)) + (Ord(Ch(s, Len(s))) - 3)

RECURSIVE NatStr(_)
\* str(n) of a natural number.
NatStr(n) ==
    IF n < 10 THEN Ch(Alphabet, n + 3)
    ELSE NatStr(n \div 10) \o Ch(Alphabet, (n % 10) + 3)

(* ------------------------------- cells -------------------------------- *)
RECURSIVE GCD(_, _)
GCD(a, b) == IF b = 0 THEN a ELSE GCD(b, a % b)

NullCell == [k |-> "null", p |-> 0, q |-> 1, f |-> FALSE, s |-> ""]
NumCell(n) == [k |-> "num", p |-> n, q |-> 1, f |-> FALSE, s |-> ""]
FloatCell(a, b) ==
    LET g == GCD(a, b)
    IN [k |-> "num", p |-> a \div g, q |-> b \div g, f |-> TRUE, s |-> ""]
TextCell(t) == [k |-> "text", p |-> 0, q |-> 1, f |-> FALSE, s |-> t]
BoolCell(b) == [k |-> "bool", p |-> IF b THEN 1 ELSE 0, q |-> 1, f |-> FALSE, s |-> ""]

IsNull(c) == c.k = "null"

\* The value of a cell as hashing and == see it: 1 and 1.0 are one value.
Key(c) == <<c.k, c.p, c.q, c.s>>

\* Series.nunique(): the number of distinct non-missing values.
nunique(cells) ==
    Cardinality({Key(cells[i]) : i \in {j \in 1..Len(cells) : ~IsNull(cells[j])}})

\* pd.to_numeric(value, errors='coerce') on one cell.
to_numeric(c) ==
    IF c.k = "num" THEN c
    ELSE IF c.k = "bool" THEN NumCell(c.p)
    ELSE IF c.k = "text" /\ IsNumericText(c.s) THEN NumCell(ParseNat(c.s))
    ELSE NullCell

\* str(value), as get_dummies uses it in a column name.
ValueStr(c) ==
    IF c.k = "text" THEN c.s
    ELSE IF c.q = 1 THEN NatStr(c.p) \o (IF c.f THEN ".0" ELSE "")
    ELSE NatStr(c.p) \o "/" \o NatStr(c.q)

(* ------------------------------ tables -------------------------------- *)
Names(t) == [i \in 1..Len(t) |-> t[i].name]
NameSet(t) == {t[i].name : i \in 1..Len(t)}
RowCount(t) == IF Len(t) = 0 THEN 0 ELSE Len(t[1].cells)

Range(seq) == {seq[i] : i \in 1..Len(seq)}

(* ------------------------- detect_column_types ------------------------ *)
is_numeric_dtype(col) == col.dtype = "numeric"

\* pandas 2.x: an object column is of string dtype when every element is a
\* string (a missing value is not one).
is_string_dtype(col) ==
    col.dtype = "object" /\ \A i \in 1..Len(col.cells) : col.cells[i].k = "text"

is_categorical_dtype(col) == col.dtype = "category"

Coerced(col) == [i \in 1..Len(col.cells) |-> to_numeric(col.cells[i])]

\* coerced.notnull().sum()
ValidCount(col) ==
    Cardinality({i \in 1..Len(col.cells) : ~IsNull(to_numeric(col.cells[i]))})

\* Mutant of MostlyNumeric: valid_ratio >= 0.8.
MostlyNumericAtLeast(col) == ValidCount(col) * 10 >= 8 * Len(col.cells)

\* valid_ratio > 0.8, with valid_ratio = valid / len(series)
MostlyNumeric(col) == ValidCount(col) * 10 > 8 * Len(col.cells)

\* nunique > 15
ExceedsCardinality(n) == n > CardinalityThreshold

\* Mutant of DetectStep: the last branch appends the column to no list.
DetectStepNoDefault(result, col) ==
    IF is_numeric_dtype(col)
    THEN (IF ExceedsCardinality(nunique(col.cells))
          THEN [result EXCEPT !.numeric = Append(@, col.name)]
          ELSE [result EXCEPT !.categorical = Append(@, col.name)])
    ELSE IF is_string_dtype(col) \/ is_categorical_dtype(col)
    THEN [result EXCEPT !.categorical = Append(@, col.name)]
    ELSE IF MostlyNumeric(col)
         THEN (IF ExceedsCardinality(nunique(Coerced(col)))
               THEN [result EXCEPT !.numeric = Append(@, col.name)]
               ELSE [result EXCEPT !.categorical = Append(@, col.name)])
         ELSE result

\* One iteration of the loop of detect_column_types: the column's name is
\* appended to the list its branch names.
DetectStep(result, col) ==
    IF is_numeric_dtype(col)
    THEN (IF ExceedsCardinality(nunique(col.cells))
          THEN [result EXCEPT !.numeric = Append(@, col.name)]
          ELSE [result EXCEPT !.categorical = Append(@, col.name)])
    ELSE IF is_string_dtype(col) \/ is_categorical_dtype(col)
    THEN [result EXCEPT !.categorical = Append(@, col.name)]
    ELSE IF MostlyNumeric(col)
         THEN (IF ExceedsCardinality(nunique(Coerced(col)))
               THEN [result EXCEPT !.numeric = Append(@, col.name)]
               ELSE [result EXCEPT !.categorical = Append(@, col.name)])
         ELSE [result EXCEPT !.categorical = Append(@, col.name)]

RECURSIVE DetectLoop(_, _)
DetectLoop(t, result) ==
    IF Len(t) = 0 THEN result
    ELSE DetectLoop(Tail(t), DetectStep(result, t[1]))

detect_column_types(t) == DetectLoop(t, [numeric |-> <<>>, categorical |-> <<>>])

(* --------------- check_high_cardinality_and_identifiers --------------- *)
identifier_keywords == <<"id", "uuid", "name", "code", "ref", "number">>

\* nunique > 0.9 * total
IsHighCardinality(n, total) == n * 10 > 9 * total

\* any(keyword in col_lower for keyword in identifier_keywords)
HasIdentifierKeyword(name) ==
    LET col_lower == str_lower(name)
    IN \E i \in 1..Len(identifier_keywords) :
            str_contains(col_lower, identifier_keywords[i])

\* Mutant of HighCardStep: the keyword test stands outside the cardinality test.
HighCardStepIdsAnywhere(acc, col, total) ==
    [high_cardinality |-> IF IsHighCardinality(nunique(col.cells), total)
                          THEN Append(acc.high_cardinality, col.name)
                          ELSE acc.high_cardinality,
     likely_ids |-> IF HasIdentifierKeyword(col.name)
                    THEN Append(acc.likely_ids, col.name)
                    ELSE acc.likely_ids]

\* One iteration of the loop; acc = [high_cardinality, likely_ids].
HighCardStep(acc, col, total) ==
    IF IsHighCardinality(nunique(col.cells), total)
    THEN [high_cardinality |-> Append(acc.high_cardinality, col.name),
          likely_ids |-> IF HasIdentifierKeyword(col.name)
                         THEN Append(acc.likely_ids, col.name)
                         ELSE acc.likely_ids]
    ELSE acc

RECURSIVE HighCardLoop(_, _, _)
HighCardLoop(t, acc, total) ==
    IF Len(t) = 0 THEN acc
    ELSE HighCardLoop(Tail(t), HighCardStep(acc, t[1], total), total)

check_high_cardinality_and_identifiers(t) ==
    HighCardLoop(t, [high_cardinality |-> <<>>, likely_ids |-> <<>>], RowCount(t))

(* -------------------------- validate_dataframe ------------------------ *)
\* df.isnull().sum().sum()
TotalNulls(t) ==
    Cardinality({<<i, r>> \in (1..Len(t)) \X (1..RowCount(t)) : IsNull(t[i].cells[r])})

\* df.isnull().all().all()
AllNull(t) == \A i \in 1..Len(t) : \A r \in 1..Len(t[i].cells) : IsNull(t[i].cells[r])

\* Mutant of IsTargetCandidate: nunique <= rows * 0.9.
IsTargetCandidateInclusive(n, rows) == n > 1 /\ n * 10 <= rows * 9

\* nunique > 1 and nunique < rows * 0.9
IsTargetCandidate(n, rows) == n > 1 /\ n * 10 < rows * 9

RECURSIVE FilterColumns(_, _)
\* [col for col in df.columns if test]: names of the columns whose index is
\* in keep, in column order.
FilterColumns(t, keep) ==
    IF Len(t) = 0 THEN <<>>
    ELSE FilterColumns(SubSeq(t, 1, Len(t) - 1), keep)
            \o (IF Len(t) \in keep THEN <<t[Len(t)].name>> ELSE <<>>)

ConstantCols(t) == FilterColumns(t, {i \in 1..Len(t) : nunique(t[i].cells) <= 1})

TargetCandidates(t) ==
    FilterColumns(t, {i \in 1..Len(t) :
                        IsTargetCandidate(nunique(t[i].cells), RowCount(t))})

Warnings(t) ==
    LET hc == check_high_cardinality_and_identifiers(t)
        constant_cols == ConstantCols(t)
    IN (IF TotalNulls(t) > 0 THEN <<[msg |-> "Contains null values", cols |-> <<>>]>>
        ELSE <<>>)
       \o (IF constant_cols # <<>>
           THEN <<[msg |-> "Constant or empty columns: ", cols |-> constant_cols]>>
           ELSE <<>>)
       \o (IF hc.high_cardinality # <<>>
           THEN <<[msg |-> "High cardinality columns: ", cols |-> hc.high_cardinality]>>
           ELSE <<>>)
       \o (IF hc.likely_ids # <<>>
           THEN <<[msg |-> "Likely identifier columns: ", cols |-> hc.likely_ids]>>
           ELSE <<>>)

NoReport == [columns |-> <<>>, column_types |-> [numeric |-> <<>>, categorical |-> <<>>],
             row_count |-> 0, missing_values |-> 0, column_count |-> 0,
             target_candidates |-> <<>>, warnings |-> <<>>]

\* Mutant of validate_dataframe: the column count is checked before the row count.
validate_dataframe_ColumnsFirst(t) ==
    IF Len(t) < MinCols
    THEN [ok |-> FALSE, error |-> "Too few columns.", report |-> NoReport]
    ELSE IF RowCount(t) < MinRows
    THEN [ok |-> FALSE, error |-> "Too few rows.", report |-> NoReport]
    ELSE IF AllNull(t)
    THEN [ok |-> FALSE, error |-> "Dataframe contains only null values.",
          report |-> NoReport]
    ELSE [ok |-> TRUE, error |-> "",
          report |-> [columns |-> Names(t),
                      column_types |-> detect_column_types(t),
                      row_count |-> RowCount(t),
                      missing_values |-> TotalNulls(t),
                      column_count |-> Len(t),
                      target_candidates |-> TargetCandidates(t),
                      warnings |-> Warnings(t)]]

\* The outcome of validate_dataframe: an error (raised ValueError) or a report.
validate_dataframe(t) ==
    IF RowCount(t) < MinRows
    THEN [ok |-> FALSE, error |-> "Too few rows.", report |-> NoReport]
    ELSE IF Len(t) < MinCols
    THEN [ok |-> FALSE, error |-> "Too few columns.", report |-> NoReport]
    ELSE IF AllNull(t)
    THEN [ok |-> FALSE, error |-> "Dataframe contains only null values.",
          report |-> NoReport]
    ELSE [ok |-> TRUE, error |-> "",
          report |-> [columns |-> Names(t),
                      column_types |-> detect_column_types(t),
                      row_count |-> RowCount(t),
                      missing_values |-> TotalNulls(t),
                      column_count |-> Len(t),
                      target_candidates |-> TargetCandidates(t),
                      warnings |-> Warnings(t)]]

\* Mutant of TableAfterValidate: the classifier stores the coerced series in
\* the column it coerces (df[col] = pd.to_numeric(...)).
TableAfterValidateCoerced(t) ==
    IF RowCount(t) < MinRows \/ Len(t) < MinCols \/ AllNull(t) THEN t
    ELSE [i \in 1..Len(t) |->
            IF is_numeric_dtype(t[i]) \/ is_string_dtype(t[i]) \/ is_categorical_dtype(t[i])
            THEN t[i]
            ELSE [t[i] EXCEPT !.cells = Coerced(t[i])]]

\* The table after validate_dataframe: no statement of it, nor of
\* detect_column_types (coerced is a new series) or of
\* check_high_cardinality_and_identifiers, assigns to df.
TableAfterValidate(t) == t

(* --------------------------- SimpleImputer ---------------------------- *)
\* The conversion of one cell to float64 (check_array with FLOAT_DTYPES);
\* a missing value stays missing.  Defined where CanFloat holds.
AsFloat(c) ==
    IF c.k = "num" THEN FloatCell(c.p, c.q)
    ELSE IF c.k = "bool" THEN FloatCell(c.p, 1)
    ELSE IF c.k = "text" THEN FloatCell(ParseNat(c.s), 1)
    ELSE NullCell

CanFloat(c) == c.k # "text" \/ IsNumericText(c.s)

Observed(cells) == {i \in 1..Len(cells) : ~IsNull(cells[i])}

RECURSIVE SumCells(_)
\* The sum of the non-missing cells of a float column, as <<numerator, denominator>>.
SumCells(cells) ==
    IF Len(cells) = 0 THEN <<0, 1>>
    ELSE LET rest == SumCells(Tail(cells))
             c == cells[1]
         IN IF IsNull(c) THEN rest
            ELSE <<rest[1] * c.q + c.p * rest[2], rest[2] * c.q>>

\* strategy="mean": the mean of the non-missing values.
Mean(cells) ==
    LET sum == SumCells(cells)
    IN FloatCell(sum[1], sum[2] * Cardinality(Observed(cells)))

\* Mutant of FillMean: the values are converted but the missing cells are not filled.
FillMeanNoFill(cells) == [i \in 1..Len(cells) |-> AsFloat(cells[i])]

FillMean(cells) ==
    LET floats == [i \in 1..Len(cells) |-> AsFloat(cells[i])]
        mean == Mean(floats)
    IN [i \in 1..Len(cells) |-> IF IsNull(floats[i]) THEN mean ELSE floats[i]]

\* a < b on two values of a column.
CellLess(a, b) ==
    IF a.k = "text" THEN str_less(a.s, b.s) ELSE a.p * b.q < b.p * a.q

\* Counter(array): the number of cells holding the value of cell i.
Counts(cells) ==
    [i \in Observed(cells) |->
        Cardinality({h \in Observed(cells) : Key(cells[h]) = Key(cells[i])})]

\* The most frequent values of a column (those of the highest count).
Modes(cells) ==
    LET cnt == Counts(cells)
    IN {cells[i] : i \in {j \in DOMAIN cnt : \A h \in DOMAIN cnt : cnt[h] <= cnt[j]}}

\* min() over the modes raises TypeError when a string meets a number.
ModesComparable(cells) ==
    \A a, b \in Modes(cells) : (a.k = "text") = (b.k = "text")

\* strategy="most_frequent": the most frequent value, the smallest on a tie.
MostFrequent(cells) ==
    LET modes == Modes(cells)
    IN CHOOSE m \in modes : \A o \in modes : Key(o) = Key(m) \/ CellLess(m, o)

FillMostFrequent(cells) ==
    LET fill == MostFrequent(cells)
    IN [i \in 1..Len(cells) |-> IF IsNull(cells[i]) THEN fill ELSE cells[i]]

Indices(t, names) == {i \in 1..Len(t) : t[i].name \in Range(names)}

\* num_imputer.fit_transform(dataset[numeric_features]) and the assignment
\* back to dataset[numeric_features]: [ok, error, table].
ImputeNumeric(t, numeric_features) ==
    LET sel == Indices(t, numeric_features)
    IN IF numeric_features = <<>>
       THEN [ok |-> FALSE, table |-> t,
             error |-> "Found array with 0 feature(s) while a minimum of 1 is required."]
       ELSE IF \E i \in sel : \E r \in 1..Len(t[i].cells) : ~CanFloat(t[i].cells[r])
       THEN [ok |-> FALSE, table |-> t,
             error |-> "Cannot use mean strategy with non-numeric data"]
       ELSE IF \E i \in sel : Observed(t[i].cells) = {}
       THEN [ok |-> FALSE, table |-> t,
             error |-> "Columns must be same length as key"]
       ELSE [ok |-> TRUE, error |-> "",
             table |-> [i \in 1..Len(t) |->
                          IF i \in sel
                          THEN [name |-> t[i].name, dtype |-> "numeric",
                                cells |-> FillMean(t[i].cells)]
                          ELSE t[i]]]

\* The array SimpleImputer returns for the categorical frame is a float
\* array when a numeric frame holds a float or a missing value, an integer
\* array when it holds integers only, and an object array otherwise.
CategoricalFrameKind(t, sel) ==
    IF \E i \in sel : t[i].dtype # "numeric" THEN "object"
    ELSE IF \E i \in sel : \E r \in 1..Len(t[i].cells) :
                IsNull(t[i].cells[r]) \/ t[i].cells[r].f
    THEN "float" ELSE "int"

\* cat_imputer.fit_transform(dataset[categorical_features]) and the
\* assignment back to dataset[categorical_features]: [ok, error, table].
ImputeCategorical(t, categorical_features) ==
    LET sel == Indices(t, categorical_features)
        kind == CategoricalFrameKind(t, sel)
    IN IF categorical_features = <<>>
       THEN [ok |-> FALSE, table |-> t,
             error |-> "Found array with 0 feature(s) while a minimum of 1 is required."]
       ELSE IF \E i \in sel : Observed(t[i].cells) # {} /\ ~ModesComparable(t[i].cells)
       THEN [ok |-> FALSE, table |-> t,
             error |-> "'<' not supported between instances of 'str' and 'int'"]
       ELSE IF \E i \in sel : Observed(t[i].cells) = {}
       THEN [ok |-> FALSE, table |-> t,
             error |-> "Columns must be same length as key"]
       ELSE [ok |-> TRUE, error |-> "",
             table |-> [i \in 1..Len(t) |->
                          IF i \in sel
                          THEN LET filled == FillMostFrequent(t[i].cells)
                               IN [name |-> t[i].name,
                                   dtype |-> IF kind = "object" THEN "object" ELSE "numeric",
                                   cells |-> IF kind = "float"
                                             THEN [r \in 1..Len(filled) |-> AsFloat(filled[r])]
                                             ELSE filled]
                          ELSE t[i]]]

(* ---------------------------- pd.get_dummies -------------------------- *)
\* The order of the categories of a column: numbers before strings.
CategoryLess(a, b) ==
    IF (a.k = "text") = (b.k = "text") THEN CellLess(a, b) ELSE b.k = "text"

RECURSIVE SortCategories(_)
SortCategories(S) ==
    IF S = {} THEN <<>>
    ELSE LET m == CHOOSE x \in S : \A y \in S : Key(y) = Key(x) \/ CategoryLess(x, y)
         IN <<m>> \o SortCategories({y \in S : Key(y) # Key(m)})

\* One representative cell per distinct value of the column.
Categories(cells) ==
    {cells[i] : i \in {j \in Observed(cells) :
                        \A h \in Observed(cells) : Key(cells[h]) = Key(cells[j]) => j <= h}}

\* The indicator columns of one column, one per category, sorted.
Dummies(col) ==
    LET cats == SortCategories(Categories(col.cells))
    IN [c \in 1..Len(cats) |->
          [name |-> col.name \o "_" \o ValueStr(cats[c]),
           dtype |-> "bool",
           cells |-> [r \in 1..Len(col.cells) |->
                        BoolCell(Key(col.cells[r]) = Key(cats[c]))]]]

RECURSIVE Passthrough(_, _)
\* data.drop(columns_to_encode, axis=1)
Passthrough(t, encoded) ==
    IF Len(t) = 0 THEN <<>>
    ELSE (IF t[1].name \in encoded THEN <<>> ELSE <<t[1]>>)
            \o Passthrough(Tail(t), encoded)

RECURSIVE AllDummies(_, _)
AllDummies(t, columns) ==
    IF Len(columns) = 0 THEN <<>>
    ELSE LET i == CHOOSE j \in 1..Len(t) : t[j].name = columns[1]
         IN Dummies(t[i]) \o AllDummies(t, Tail(columns))

\* pd.get_dummies(dataset, columns=categorical_features): the columns that are
\* not encoded, then the indicator columns of each encoded column.
get_dummies(t, columns) == Passthrough(t, Range(columns)) \o AllDummies(t, columns)

(* --------------------------- preprocess_dataset ----------------------- *)
ZeroColumn(name, rows) ==
    [name |-> name, dtype |-> "numeric", cells |-> [r \in 1..rows |-> NumCell(0)]]

RECURSIVE AddMissing(_, _, _)
\* for col in model_columns: if col not in dataset_encoded.columns:
\*     dataset_encoded[col] = 0
AddMissing(encoded, model_columns, rows) ==
    IF Len(model_columns) = 0 THEN encoded
    ELSE AddMissing(IF model_columns[1] \in NameSet(encoded) THEN encoded
                    ELSE Append(encoded, ZeroColumn(model_columns[1], rows)),
                    Tail(model_columns), rows)

RECURSIVE ColumnsNamed(_, _)
\* Every column of the table that carries the label, in column order.
ColumnsNamed(t, name) ==
    IF Len(t) = 0 THEN <<>>
    ELSE (IF t[1].name = name THEN <<t[1]>> ELSE <<>>) \o ColumnsNamed(Tail(t), name)

RECURSIVE Project(_, _)
\* dataset_encoded[model_columns]: for each label of the list in turn, the
\* columns that carry it (all of them when the label is not unique).
Project(encoded, model_columns) ==
    IF Len(model_columns) = 0 THEN <<>>
    ELSE ColumnsNamed(encoded, model_columns[1]) \o Project(encoded, Tail(model_columns))

\* Mutant of Failure: the original exception propagates unwrapped.
FailureUnwrapped(t, msg) ==
    [ok |-> FALSE, error |-> msg, matrix |-> <<>>, table |-> t]

\* except Exception as e: raise ValueError(f"Preprocessing failed: {str(e)}")
Failure(t, msg) ==
    [ok |-> FALSE, error |-> "Preprocessing failed: " \o msg, matrix |-> <<>>, table |-> t]

\* Lines 23-35 of preprocess_dataset: classification, the two imputations
\* (each assigned back to the dataset) and the one-hot encoding.  table is the
\* dataset as these lines leave it, encoded is dataset_encoded.
Encode(t) ==
    LET column_types == detect_column_types(t)
        num == ImputeNumeric(t, column_types.numeric)
        cat == ImputeCategorical(num.table, column_types.categorical)
    IN IF ~num.ok THEN [ok |-> FALSE, error |-> num.error, table |-> num.table,
                        encoded |-> <<>>]
       ELSE IF ~cat.ok THEN [ok |-> FALSE, error |-> cat.error, table |-> cat.table,
                             encoded |-> <<>>]
       ELSE [ok |-> TRUE, error |-> "", table |-> cat.table,
             encoded |-> get_dummies(cat.table, column_types.categorical)]

\* Lines 38-50 of preprocess_dataset: the reconciliation with model_columns,
\* the projection, to_csv and the except clause.  saved tells whether to_csv
\* could write artifacts/X_processed.csv.
Finish(enc, model_columns, saved) ==
    IF ~enc.ok THEN Failure(enc.table, enc.error)
    ELSE IF ~saved
    THEN Failure(enc.table, "Cannot save file into a non-existent directory: 'artifacts'")
    ELSE [ok |-> TRUE, error |-> "", table |-> enc.table,
          matrix |-> Project(AddMissing(enc.encoded, model_columns,
                                        RowCount(enc.table)),
                             model_columns)]

\* preprocess_dataset(dataset, model_columns): the outcome [ok, error, matrix]
\* and table, the dataset as the call leaves it.
preprocess_dataset(t, model_columns, saved) == Finish(Encode(t), model_columns, saved)

(* ------------------------- the uploaded tables ------------------------ *)
Letters == "ACBDEFGHIJKLMNOPQRSTUVWXYZ"

\* The value of the v-th category of a generated column.
Value(style, v) ==
    IF style = "int" THEN NumCell(v)
    ELSE IF style = "float" THEN FloatCell(v, 1)
    ELSE IF style = "digits" THEN TextCell(NatStr(v))
    ELSE TextCell(Ch(Letters, v))

\* A column of n rows: m missing cells, then j cells of unparseable text,
\* then the values 1..d in rotation.
Col(name, dtype, style, n, m, j, d) ==
    [name |-> name, dtype |-> dtype,
     cells |-> [i \in 1..n |->
                  IF i <= m THEN NullCell
                  ELSE IF i <= m + j THEN TextCell("NA")
                  ELSE Value(style, ((i - m - j - 1) % d) + 1)]]

\* The columns the aligned tables of n rows are made of.
AlignCatalog(n) ==
    { Col("age", "numeric", "int", n, 0, 0, 16),
      Col("age", "numeric", "float", n, 2, 0, 16),
      Col("age", "numeric", "int", n, 0, 0, 15),
      Col("age", "object", "int", n, n \div 5, 0, 16),
      Col("age", "object", "int", n, (n \div 5) - 1, 0, 16),
      Col("city", "object", "letters", n, 0, 0, 2),
      Col("city", "object", "letters", n, 2, 0, 2),
      Col("city", "object", "letters", n, 0, 0, 1),
      Col("city_A", "numeric", "int", n, 0, 0, n),
      Col("score", "object", "int", n, 0, 1, 16),
      Col("score", "object", "digits", n, 0, 1, 16),
      Col("notes", "numeric", "float", n, n, 0, 1) }

\* The columns the validated tables of n rows are made of.
Catalog(n) ==
    AlignCatalog(n) \cup
    { Col("city", "numeric", "float", n, n, 0, 1),
      Col("customer_id", "numeric", "int", n, 0, 0, n),
      Col("transaction_amount", "numeric", "float", n, 0, 0, (9 * n) \div 10),
      Col("transaction_amount", "numeric", "float", n, 0, 0, n),
      Col("REF", "object", "digits", n, 0, 0, n),
      Col("zip_code", "category", "letters", n, 0, 0, 3) }

ColumnNames ==
    <<"age", "city", "city_A", "score", "notes", "customer_id",
      "transaction_amount", "REF", "zip_code">>

NameRank(name) == CHOOSE i \in 1..Len(ColumnNames) : ColumnNames[i] = name

\* The tables of up to MaxCols columns of the catalog, with distinct names
\* (read_csv renames a repeated header), the names in the order of ColumnNames
\* or in the opposite order.
TablesFrom(catalog) ==
    UNION { {t \in [1..k -> catalog] :
                \/ \A a \in 1..(k - 1) : NameRank(t[a].name) < NameRank(t[a + 1].name)
                \/ \A a \in 1..(k - 1) : NameRank(t[a].name) > NameRank(t[a + 1].name)}
            : k \in 1..MaxCols }

RowCounts == {MinRows - 1, MinRows, MaxRows}

\* The uploads of the validation runs: every row count of RowCounts.
Tables == UNION {TablesFrom(Catalog(n)) : n \in RowCounts}

\* The uploads of the alignment runs: MaxRows rows, enough for a column to
\* hold more than CardinalityThreshold distinct values.
AlignTables == TablesFrom(AlignCatalog(MaxRows))

\* The column lists a trained model can expect.
SchemaNames == {"age", "city_A", "city_B"}

Schemas ==
    UNION { {sch \in [1..k -> SchemaNames] :
                \A a, b \in 1..k : a # b => sch[a] # sch[b]} : k \in 1..MaxSchemaLen }

(* --------------------------- the state machine ------------------------ *)
\* pc             where the request stands
\* dataset        the DataFrame of the request
\* report         the outcome of validate_dataframe
\* model_columns  the column list given to preprocess_dataset
\* runs           the outcome of each call of preprocess_dataset, with the
\*                dataset it was given
\* artifacts_dir  whether the directory artifacts/ exists, so that to_csv
\*                can write; nothing in the module creates or removes it
VARIABLES pc, dataset, report, model_columns, runs, artifacts_dir

vars == <<pc, dataset, report, model_columns, runs, artifacts_dir>>

NoOutcome == [ok |-> FALSE, error |-> "", report |-> NoReport]

Init ==
    /\ pc = "idle"
    /\ dataset = <<>>
    /\ report = NoOutcome
    /\ model_columns = <<>>
    /\ runs = <<>>
    /\ artifacts_dir \in BOOLEAN

\* read_uploaded_csv returns the table parsed from the uploaded bytes.
ReadUploadedCsv(uploads) ==
    /\ pc = "idle"
    /\ \E t \in uploads : dataset' = t
    /\ pc' = "uploaded"
    /\ UNCHANGED <<report, model_columns, runs, artifacts_dir>>

\* read_uploaded_csv raises ValueError("Error reading CSV: ...").
ReadFails ==
    /\ pc = "idle"
    /\ pc' = "parse_error"
    /\ UNCHANGED <<dataset, report, model_columns, runs, artifacts_dir>>

\* validate_dataframe(df) on the uploaded table.
Validate ==
    /\ pc = "uploaded"
    /\ report' = validate_dataframe(dataset)
    /\ dataset' = TableAfterValidate(dataset)
    /\ pc' = IF report'.ok THEN "validated" ELSE "rejected"
    /\ UNCHANGED <<model_columns, runs, artifacts_dir>>

\* preprocess_dataset(dataset, model_columns) on the validated table object;
\* a later call is given the same object and the same column list.
Align ==
    /\ pc \in {"validated", "aligned"}
    /\ Len(runs) < MaxRuns
    /\ \E schema \in Schemas :
          /\ runs # <<>> => schema = model_columns
          /\ LET out == preprocess_dataset(dataset, schema, artifacts_dir)
             IN /\ dataset' = out.table
                /\ runs' = Append(runs, [ok |-> out.ok, error |-> out.error,
                                         matrix |-> out.matrix,
                                         input |-> dataset])
          /\ model_columns' = schema
    /\ pc' = "aligned"
    /\ UNCHANGED <<report, artifacts_dir>>

NextValidate == ReadUploadedCsv(Tables) \/ ReadFails \/ Validate

NextAlign == ReadUploadedCsv(AlignTables) \/ ReadFails \/ Validate \/ Align

\* Uploads of every size, validated.
SpecValidate == Init /\ [][NextValidate]_vars

\* Uploads of MaxRows rows, validated and aligned up to MaxRuns times.
SpecAlign == Init /\ [][NextAlign]_vars

(* ------------------------------ properties ---------------------------- *)
Occurrences(seq, x) == Cardinality({i \in 1..Len(seq) : seq[i] = x})

HasNull(col) == \E r \in 1..Len(col.cells) : IsNull(col.cells[r])

\* C1: detect_column_types puts every column name of the table in exactly one
\* of the lists numeric and categorical, and no other name in either list.
C1_Partition ==
    dataset # <<>> =>
        LET ct == detect_column_types(dataset)
        IN /\ \A i \in 1..Len(dataset) :
                Occurrences(ct.numeric, dataset[i].name)
                    + Occurrences(ct.categorical, dataset[i].name) = 1
           /\ Range(ct.numeric) \cup Range(ct.categorical) \subseteq NameSet(dataset)

\* C1 witness: a table with a numeric column and a column that reaches the
\* last branch of the classifier (an object column holding a missing value).
C1_Witness ==
    /\ pc = "uploaded"
    /\ detect_column_types(dataset).numeric # <<>>
    /\ \E i \in 1..Len(dataset) :
          dataset[i].dtype = "object" /\ HasNull(dataset[i]) /\ ~MostlyNumeric(dataset[i])

\* C2: whenever preprocess_dataset returns, the column names of the returned
\* matrix are exactly model_columns, in that order.
C2_ColumnsAreSchema ==
    \A i \in 1..Len(runs) : runs[i].ok => Names(runs[i].matrix) = model_columns

\* C3: validate_dataframe fails iff the table has fewer than 10 rows, fewer
\* than 2 columns or only missing cells; the error is that of the first of
\* these conditions, in this order, and a failure carries no report.
C3_HardFailures ==
    pc \in {"validated", "rejected"} =>
        LET fewRows == RowCount(dataset) < 10
            fewCols == Len(dataset) < 2
            onlyNull == \A i \in 1..Len(dataset) : \A r \in 1..RowCount(dataset) :
                            dataset[i].cells[r].k = "null"
        IN /\ ~report.ok <=> (fewRows \/ fewCols \/ onlyNull)
           /\ fewRows => report.error = "Too few rows."
           /\ ~fewRows /\ fewCols => report.error = "Too few columns."
           /\ ~fewRows /\ ~fewCols /\ onlyNull
                => report.error = "Dataframe contains only null values."
           /\ ~report.ok => report.report = NoReport
           /\ report.ok => /\ report.error = ""
                           /\ report.report.columns = Names(dataset)
                           /\ report.report.row_count = RowCount(dataset)

\* C3 witness: a 9-row table of one column is rejected for its rows.
C3_Witness ==
    /\ pc = "rejected"
    /\ RowCount(dataset) = 9
    /\ Len(dataset) = 1
    /\ report.error = "Too few rows."

\* C4: whenever preprocess_dataset returns a matrix, no cell of it is missing
\* and every cell is a number or an indicator.  (Stated of the latest run: every
\* run is the latest one in the state its call leads to.)
C4_MatrixNumeric ==
    \A i \in {Len(runs)} \ {0} : runs[i].ok =>
        \A c \in 1..Len(runs[i].matrix) : \A r \in 1..Len(runs[i].matrix[c].cells) :
            runs[i].matrix[c].cells[r].k \in {"num", "bool"}

\* C4 witness: a returned matrix whose schema names a column of the input that
\* is of object dtype, holds missing cells and was classified numeric by the
\* coercion branch.
C4_Witness ==
    \E i \in 1..Len(runs) :
        /\ runs[i].ok
        /\ \E c \in 1..Len(runs[i].input) :
              /\ runs[i].input[c].dtype = "object"
              /\ HasNull(runs[i].input[c])
              /\ runs[i].input[c].name \in Range(detect_column_types(runs[i].input).numeric)
              /\ runs[i].input[c].name \in Range(model_columns)

\* C5: two runs of preprocess_dataset on the same table object with the same
\* model_columns (the matrix can be saved) have the same outcome, and the first
\* run's imputation does not change the classification.
C5_SameOutcomeOnRerun ==
    \A i, j \in 1..Len(runs) :
        (i < j /\ artifacts_dir) =>
            /\ runs[i].ok = runs[j].ok
            /\ runs[i].error = runs[j].error
            /\ runs[i].matrix = runs[j].matrix
            /\ detect_column_types(runs[i].input) = detect_column_types(runs[j].input)

\* C6: a failure of any step of preprocess_dataset reaches the caller as
\* "Preprocessing failed: <original message>", with no matrix.  (Stated of the
\* latest run.)
C6_SingleFailureKind ==
    \A i \in {Len(runs)} \ {0} :
        LET enc == Encode(runs[i].input)
        IN /\ (~enc.ok \/ ~artifacts_dir) <=> ~runs[i].ok
           /\ ~runs[i].ok =>
                /\ Len(runs[i].error) > 22
                /\ SubSeq(runs[i].error, 1, 22) = "Preprocessing failed: "
                /\ runs[i].matrix = <<>>
           /\ ~enc.ok => runs[i].error = "Preprocessing failed: " \o enc.error
           /\ (enc.ok /\ ~artifacts_dir) =>
                runs[i].error = "Preprocessing failed: Cannot save file into a non-existent directory: 'artifacts'"

\* C6 witness: a run fails in the categorical imputation, after the numeric
\* imputation succeeded.
C6_Witness ==
    \E i \in 1..Len(runs) :
        /\ ~runs[i].ok
        /\ detect_column_types(runs[i].input).numeric # <<>>
        /\ runs[i].error = "Preprocessing failed: Columns must be same length as key"

\* C7: a call of validate_dataframe, returning or failing, leaves the table as
\* it was.
C7_ValidateKeepsTable ==
    [][(pc = "uploaded" /\ pc' \in {"validated", "rejected"}) => dataset' = dataset]_vars

\* C7 witness: a report was produced for a table with missing cells and an
\* object column the classifier coerces.
C7_Witness ==
    /\ pc = "validated"
    /\ report.report.missing_values > 0
    /\ \E i \in 1..Len(dataset) :
          dataset[i].dtype = "object" /\ ~is_string_dtype(dataset[i])

\* C8: target_candidates lists exactly the columns with more than 1 distinct
\* value and strictly fewer than 90% of the row count, in column order.
C8_TargetCandidates ==
    pc = "validated" =>
        /\ report.report.target_candidates =
              FilterColumns(dataset,
                  {i \in 1..Len(dataset) :
                      LET n == nunique(dataset[i].cells)
                      IN n > 1 /\ 10 * n < 9 * RowCount(dataset)})
        /\ \A i \in 1..Len(dataset) :
              LET n == nunique(dataset[i].cells)
              IN (n = RowCount(dataset) \/ 10 * n = 9 * RowCount(dataset))
                    => dataset[i].name \notin Range(report.report.target_candidates)

\* C8 witness: a report for a table with a column of exactly 90% distinct
\* values (excluded) beside a column of 2 distinct values (included).
C8_Witness ==
    /\ pc = "validated"
    /\ \E i \in 1..Len(dataset) : 10 * nunique(dataset[i].cells) = 9 * RowCount(dataset)
    /\ \E i \in 1..Len(dataset) :
          /\ nunique(dataset[i].cells) = 2
          /\ dataset[i].name \in Range(report.report.target_candidates)

\* C9: likely_ids is a subset of high_cardinality (the columns with more
\* distinct values than 90% of the rows) and holds exactly its columns whose
\* lower-cased name contains a keyword.
C9_LikelyIds ==
    pc = "uploaded" =>
        LET hc == check_high_cardinality_and_identifiers(dataset)
            high == {i \in 1..Len(dataset) :
                        10 * nunique(dataset[i].cells) > 9 * RowCount(dataset)}
        IN /\ hc.high_cardinality = FilterColumns(dataset, high)
           /\ Range(hc.likely_ids) \subseteq Range(hc.high_cardinality)
           /\ hc.likely_ids =
                FilterColumns(dataset,
                    {i \in high : dataset[i].name \in {"customer_id", "REF", "zip_code"}})
           /\ "transaction_amount" \notin Range(hc.likely_ids)

\* C9 witness: customer_id and transaction_amount are both of high
\* cardinality, and only customer_id is a likely identifier.
C9_Witness ==
    /\ pc = "uploaded"
    /\ LET hc == check_high_cardinality_and_identifiers(dataset)
       IN /\ hc.likely_ids = <<"customer_id">>
          /\ Range(hc.high_cardinality) = {"customer_id", "transaction_amount"}

\* C10: a column is labelled numeric iff it is of numeric kind with more than
\* 15 distinct values, or it is a mixed column (neither numeric, nor all text,
\* nor categorical), more than 80% of its rows coerce to a number and the
\* coerced values have more than 15 distinct values.
C10_NumericIff ==
    pc = "uploaded" =>
        LET ct == detect_column_types(dataset)
        IN \A i \in 1..Len(dataset) :
            LET col == dataset[i]
                rows == Len(col.cells)
                valid == {r \in 1..rows : to_numeric(col.cells[r]).k = "num"}
                mixed == /\ col.dtype = "object"
                         /\ \E r \in 1..rows : col.cells[r].k # "text"
                distinct == Cardinality({Key(to_numeric(col.cells[r])) : r \in valid})
            IN /\ col.name \in Range(ct.numeric) <=>
                    \/ col.dtype = "numeric" /\ nunique(col.cells) > 15
                    \/ mixed /\ 10 * Cardinality(valid) > 8 * rows /\ distinct > 15
               /\ nunique(col.cells) <= 1 => col.name \in Range(ct.categorical)

\* C10 witness: a table with a numeric column of more than 15 distinct
\* values (numeric) beside a mixed column of which exactly 80% of the rows
\* coerce, to more than 15 distinct values (categorical).
C10_Witness ==
    /\ pc = "uploaded"
    /\ \E i \in 1..Len(dataset) :
          /\ dataset[i].dtype = "numeric"
          /\ dataset[i].name \in Range(detect_column_types(dataset).numeric)
    /\ \E i \in 1..Len(dataset) :
          /\ dataset[i].dtype = "object"
          /\ 10 * ValidCount(dataset[i]) = 8 * Len(dataset[i].cells)
          /\ nunique(Coerced(dataset[i])) > 15
          /\ dataset[i].name \in Range(detect_column_types(dataset).categorical)

====
